---------------------------- MODULE Spec2Model ----------------------------
(***************************************************************************)
(* Context derivation and caching engine of the SEO lab                    *)
(* (src/apis/seo_lab/context_chunking.py, class ContextChunker) and its    *)
(* facade (src/apis/seo_lab/src/copywriter_crew/crew.py).                  *)
(*                                                                         *)
(* Python objects are modelled with a heap: a mutable list or dict is an   *)
(* object at an address, and a value is an immutable string, an integer or *)
(* a reference to an object.  Two values alias when they are references to *)
(* the same address.  Text is a sequence of one-character strings, so that *)
(* splitting, joining and slicing are computed as the code computes them.  *)
(***************************************************************************)
EXTENDS Integers, Sequences, FiniteSets, TLC

VARIABLES
    heap,           \* the objects: heap[a] is the list or dict at address a
    full_context,   \* ContextChunker.full_context: address of the Pool dict
    context_cache,  \* ContextChunker.context_cache: <<[key, ctx]>> in insertion order
    ret,            \* what the last call returned, and how
    hist,           \* observation of the calls made so far
    calls,          \* number of calls made (bounded)
    pc,             \* per caller: position inside get_minimal_context
    loc,            \* per caller: its local variables
    fn              \* the argument and result of a function applied on its own

vars == <<heap, full_context, context_cache, ret, hist, calls, pc, loc, fn>>

-----------------------------------------------------------------------------
(* Bounds of the model *)

MaxCalls == 2
NumCallers == 2
MaxProdLen == 5
MaxKw == 6
MaxTieLen == 6
MaxVol == 2
MaxStrLen == 203
MaxRelated == 6
MaxTitles == 4

(* Constants of the program *)

MaxProducts == 3
MaxKeywords == 5
SummaryLen == 200
TopRelated == 5
TopTitles == 3

-----------------------------------------------------------------------------
(* Values and objects *)

StrV(s) == [k |-> "str", s |-> s]
IntV(n) == [k |-> "int", n |-> n]
RefV(a) == [k |-> "ref", a |-> a]

ListO(items) == [o |-> "list", items |-> items]
DictO(ents) == [o |-> "dict", ents |-> ents]

EmptyStr == StrV(<<>>)

\* the literal 'pt_BR'
PtBR == <<"p", "t", "_", "B", "R">>

\* the literal "..."
Ellipsis == <<".", ".", ".">>

\* bool(v): empty strings, 0, empty lists and empty dicts are falsy
Truthy(h, v) ==
    CASE v.k = "str" -> v.s # <<>>
      [] v.k = "int" -> v.n # 0
      [] v.k = "ref" -> IF h[v.a].o = "list" THEN Len(h[v.a].items) > 0
                                              ELSE DOMAIN h[v.a].ents # {}

IsStr(v) == v.k = "str"
IsDict(h, v) == v.k = "ref" /\ h[v.a].o = "dict"
IsList(h, v) == v.k = "ref" /\ h[v.a].o = "list"

\* d.get(key, default) for the dict at address a
DictGet(h, a, key, default) ==
    IF key \in DOMAIN h[a].ents THEN h[a].ents[key] ELSE default

\* a new object: the heap with it appended and a reference to it
Alloc(h, obj) == [h |-> Append(h, obj), v |-> RefV(Len(h) + 1)]

\* d.get(key, []) or d.get(key, {}): the default is a fresh empty object
DictGetFresh(h, a, key, kind) ==
    IF key \in DOMAIN h[a].ents
    THEN [h |-> h, v |-> h[a].ents[key]]
    ELSE Alloc(h, IF kind = "list" THEN ListO(<<>>) ELSE DictO(<<>>))

Min(a, b) == IF a < b THEN a ELSE b

\* s[:n]
Slice(s, n) == SubSeq(s, 1, Min(Len(s), n))

RECURSIVE SplitOn(_, _)
\* s.split(d): n occurrences of d give n + 1 pieces
SplitOn(s, d) ==
    IF \A i \in 1..Len(s) : s[i] # d
    THEN <<s>>
    ELSE LET i == CHOOSE i \in 1..Len(s) :
                      s[i] = d /\ \A j \in 1..(i - 1) : s[j] # d
         IN <<SubSeq(s, 1, i - 1)>> \o SplitOn(SubSeq(s, i + 1, Len(s)), d)

RECURSIVE JoinWith(_, _)
\* sep.join(parts)
JoinWith(parts, sep) ==
    IF Len(parts) = 0 THEN <<>>
    ELSE IF Len(parts) = 1 THEN parts[1]
    ELSE parts[1] \o sep \o JoinWith(Tail(parts), sep)

RECURSIVE SetToSeq(_)
\* the elements of a finite set in some fixed order
SetToSeq(S) ==
    IF S = {} THEN <<>>
    ELSE LET x == CHOOSE x \in S : TRUE IN <<x>> \o SetToSeq(S \ {x})

-----------------------------------------------------------------------------
(* Limiting policies *)

\* _limit_products
LimitProducts(h, products) ==
    IF ~Truthy(h, products) THEN products
    ELSE IF IsStr(products)
    THEN StrV(JoinWith(Slice(SplitOn(products.s, "."), MaxProducts), <<".", " ">>)
              \o <<".">>)
    ELSE products

\* the sort key of _limit_keywords: x.get('Volume', 0)
VolumeKey(h, x) == DictGet(h, x.a, "Volume", IntV(0)).n

\* InsertByVolume with the order reversed, as if reverse=True were left out
InsertByVolumeAscending(h, sorted, x) ==
    LET p == Cardinality({i \in 1..Len(sorted) :
                             VolumeKey(h, sorted[i]) <= VolumeKey(h, x)})
    IN SubSeq(sorted, 1, p) \o <<x>> \o SubSeq(sorted, p + 1, Len(sorted))

\* InsertByVolume with x put before the elements whose key equals its own, as
\* an ascending sort read backwards would
InsertByVolumeTiesReversed(h, sorted, x) ==
    LET p == Cardinality({i \in 1..Len(sorted) :
                             VolumeKey(h, sorted[i]) > VolumeKey(h, x)})
    IN SubSeq(sorted, 1, p) \o <<x>> \o SubSeq(sorted, p + 1, Len(sorted))

\* one step of the stable descending sort: x goes after every element whose
\* key is at least its own
InsertByVolume(h, sorted, x) ==
    LET p == Cardinality({i \in 1..Len(sorted) :
                             VolumeKey(h, sorted[i]) >= VolumeKey(h, x)})
    IN SubSeq(sorted, 1, p) \o <<x>> \o SubSeq(sorted, p + 1, Len(sorted))

RECURSIVE SortedByVolume(_, _)
\* sorted(keywords, key=Volume, reverse=True): stable, descending
SortedByVolume(h, items) ==
    IF Len(items) = 0 THEN <<>>
    ELSE InsertByVolume(h, SortedByVolume(h, SubSeq(items, 1, Len(items) - 1)),
                        items[Len(items)])

\* LimitKeywords with the argument sorted in place (keywords.sort) before the
\* slice is taken
LimitKeywordsInPlace(h, keywords) ==
    IF ~Truthy(h, keywords) THEN [h |-> h, v |-> keywords]
    ELSE Alloc([h EXCEPT ![keywords.a] = ListO(SortedByVolume(h, h[keywords.a].items))],
               ListO(Slice(SortedByVolume(h, h[keywords.a].items), MaxKeywords)))

\* _limit_keywords: a falsy argument is returned itself, otherwise a new list
LimitKeywords(h, keywords) ==
    IF ~Truthy(h, keywords) THEN [h |-> h, v |-> keywords]
    ELSE Alloc(h, ListO(Slice(SortedByVolume(h, h[keywords.a].items), MaxKeywords)))

\* SummarizeStrategy with the marker added from 200 characters on
SummarizeStrategyFrom200(h, strategy_output) ==
    IF ~Truthy(h, strategy_output) THEN EmptyStr
    ELSE IF Len(strategy_output.s) >= SummaryLen
    THEN StrV(Slice(strategy_output.s, SummaryLen) \o Ellipsis)
    ELSE StrV(Slice(strategy_output.s, SummaryLen))

\* _summarize_strategy
SummarizeStrategy(h, strategy_output) ==
    IF ~Truthy(h, strategy_output) THEN EmptyStr
    ELSE IF Len(strategy_output.s) > SummaryLen
    THEN StrV(Slice(strategy_output.s, SummaryLen) \o Ellipsis)
    ELSE StrV(Slice(strategy_output.s, SummaryLen))

\* SliceValue with the slice left out
SliceValueWhole(h, v, n) == [h |-> h, v |-> v]

\* v[:n] of a string (a new string) or of a list (a new list)
SliceValue(h, v, n) ==
    IF IsStr(v) THEN [h |-> h, v |-> StrV(Slice(v.s, n))]
    ELSE Alloc(h, ListO(Slice(h[v.a].items, n)))

RECURSIVE SummarizeThemes(_, _, _, _)
\* the loop of _summarize_semantic_fields over the themes still to visit
SummarizeThemes(h, src, themes, summarized) ==
    IF Len(themes) = 0 THEN [h |-> h, ents |-> summarized]
    ELSE LET theme == Head(themes)
             data == h[src].ents[theme]
         IN IF IsDict(h, data)
            THEN LET g == DictGetFresh(h, data.a, "related_google", "list")
                     rg == SliceValue(g.h, g.v, TopRelated)
                     t == DictGetFresh(rg.h, data.a, "suggested_titles", "list")
                     st == SliceValue(t.h, t.v, TopTitles)
                     rec == Alloc(st.h, DictO(
                                [related_google |-> rg.v,
                                 search_intent |-> DictGet(h, data.a, "search_intent", EmptyStr),
                                 suggested_titles |-> st.v]))
                 IN SummarizeThemes(rec.h, src, Tail(themes),
                                    (theme :> rec.v) @@ summarized)
            ELSE SummarizeThemes(h, src, Tail(themes), summarized)

\* _summarize_semantic_fields: always a new dict
SummarizeSemanticFields(h, semantic_fields) ==
    IF ~Truthy(h, semantic_fields) THEN Alloc(h, DictO(<<>>))
    ELSE LET r == SummarizeThemes(h, semantic_fields.a,
                                  SetToSeq(DOMAIN h[semantic_fields.a].ents), <<>>)
         IN Alloc(r.h, DictO(r.ents))

-----------------------------------------------------------------------------
(* Stage resolver *)

TASK_STAGE_MAPPING ==
    [brand_strategist |-> [define_strategy |-> "strategy",
                           identify_products |-> "products"],
     seo_specialist |-> [map_opportunities |-> "seo",
                         generate_seo_metafields |-> "seo"],
     content_strategist |-> [plan_content |-> "content"],
     seo_copywriter |-> [write_content |-> "content"],
     narrative_editor |-> [refine_narrative |-> "refinement"],
     content_reviewer |-> [review_everything |-> "review"],
     visual_consultant |-> [suggest_elements |-> "visual"]]

\* GetTaskStage with 'strategy' as the default of the inner lookup
GetTaskStageDefaultStrategy(agent_role, task_name) ==
    IF agent_role \in DOMAIN TASK_STAGE_MAPPING
    THEN IF task_name \in DOMAIN TASK_STAGE_MAPPING[agent_role]
         THEN TASK_STAGE_MAPPING[agent_role][task_name]
         ELSE "strategy"
    ELSE "general"

\* get_task_stage
GetTaskStage(agent_role, task_name) ==
    IF agent_role \in DOMAIN TASK_STAGE_MAPPING
    THEN IF task_name \in DOMAIN TASK_STAGE_MAPPING[agent_role]
         THEN TASK_STAGE_MAPPING[agent_role][task_name]
         ELSE "general"
    ELSE "general"

-----------------------------------------------------------------------------
(* Derivation rules.  Each takes the heap, the address fc of the Pool dict *)
(* and a reference to base_context, and gives the heap with the new dict   *)
(* and a reference to it.  {**base, k: v} is (k :> v) @@ base.             *)

\* BaseContext with the default of preferred_language given to name as well
BaseContextNameDefault(h, fc) ==
    [brand |-> DictGet(h, fc, "brand", EmptyStr),
     voice |-> DictGet(h, fc, "voice", EmptyStr),
     theme |-> DictGet(h, fc, "theme", EmptyStr),
     name |-> DictGet(h, fc, "name", StrV(PtBR)),
     preferred_language |-> DictGet(h, fc, "preferred_language", StrV(PtBR))]

\* the entries of base_context
BaseContext(h, fc) ==
    [brand |-> DictGet(h, fc, "brand", EmptyStr),
     voice |-> DictGet(h, fc, "voice", EmptyStr),
     theme |-> DictGet(h, fc, "theme", EmptyStr),
     name |-> DictGet(h, fc, "name", EmptyStr),
     preferred_language |-> DictGet(h, fc, "preferred_language", StrV(PtBR))]

GetStrategyContext(h, fc, base) ==
    Alloc(h, DictO(
        [benchmarks |-> DictGet(h, fc, "benchmarks", EmptyStr),
         blog |-> DictGet(h, fc, "blog", EmptyStr),
         format_recommendations |-> DictGet(h, fc, "format_recommendations", EmptyStr)]
        @@ h[base.a].ents))

\* GetProductsContext with the recorded strategy output passed on whole
GetProductsContextNoSummary(h, fc, base) ==
    LET strategy_output == DictGet(h, fc, "strategy_output", EmptyStr)
    IN Alloc(h, DictO(
        [products |-> LimitProducts(h, DictGet(h, fc, "products", EmptyStr)),
         strategy_summary |-> strategy_output]
        @@ h[base.a].ents))

GetProductsContext(h, fc, base) ==
    LET strategy_output == DictGet(h, fc, "strategy_output", EmptyStr)
    IN Alloc(h, DictO(
        [products |-> LimitProducts(h, DictGet(h, fc, "products", EmptyStr)),
         strategy_summary |-> SummarizeStrategy(h, strategy_output)]
        @@ h[base.a].ents))

\* the four limited fields shared by the seo and content rules
LimitedFields(h, fc) ==
    LET tk0 == DictGetFresh(h, fc, "theme_keywords", "list")
        tk == LimitKeywords(tk0.h, tk0.v)
        ko0 == DictGetFresh(tk.h, fc, "keyword_opportunities", "list")
        ko == LimitKeywords(ko0.h, ko0.v)
        sf0 == DictGetFresh(ko.h, fc, "semantic_fields", "dict")
        sf == SummarizeSemanticFields(sf0.h, sf0.v)
    IN [h |-> sf.h,
        ents |-> [products |-> LimitProducts(h, DictGet(h, fc, "products", EmptyStr)),
                  theme_keywords |-> tk.v,
                  keyword_opportunities |-> ko.v,
                  semantic_fields |-> sf.v]]

GetSeoContext(h, fc, base) ==
    LET lim == LimitedFields(h, fc)
    IN Alloc(lim.h, DictO(lim.ents @@ h[base.a].ents))

GetContentContext(h, fc, base) ==
    LET lim == LimitedFields(h, fc)
    IN Alloc(lim.h, DictO(
        lim.ents
        @@ [format_recommendations |-> DictGet(h, fc, "format_recommendations", EmptyStr),
            blog |-> DictGet(h, fc, "blog", EmptyStr),
            brief_summary |-> DictGet(h, fc, "brief_summary", EmptyStr)]
        @@ h[base.a].ents))

GetRefinementContext(h, fc, base) ==
    Alloc(h, DictO(
        [voice |-> DictGet(h, fc, "voice", EmptyStr),
         benchmarks |-> DictGet(h, fc, "benchmarks", EmptyStr),
         format_recommendations |-> DictGet(h, fc, "format_recommendations", EmptyStr)]
        @@ h[base.a].ents))

GetReviewContext(h, fc, base) ==
    Alloc(h, DictO(
        [products |-> LimitProducts(h, DictGet(h, fc, "products", EmptyStr)),
         voice |-> DictGet(h, fc, "voice", EmptyStr)]
        @@ h[base.a].ents))

GetVisualContext(h, fc, base) ==
    Alloc(h, DictO(
        [brand |-> DictGet(h, fc, "brand", EmptyStr),
         voice |-> DictGet(h, fc, "voice", EmptyStr)]
        @@ h[base.a].ents))

\* the if/elif chain of get_minimal_context; the fallback is base_context itself
StageContext(h, fc, task_stage, base) ==
    CASE task_stage = "strategy" -> GetStrategyContext(h, fc, base)
      [] task_stage = "products" -> GetProductsContext(h, fc, base)
      [] task_stage = "seo" -> GetSeoContext(h, fc, base)
      [] task_stage = "content" -> GetContentContext(h, fc, base)
      [] task_stage = "refinement" -> GetRefinementContext(h, fc, base)
      [] task_stage = "review" -> GetReviewContext(h, fc, base)
      [] task_stage = "visual" -> GetVisualContext(h, fc, base)
      [] OTHER -> [h |-> h, v |-> base]

-----------------------------------------------------------------------------
(* Role augmenter: _adjust_for_agent writes the sub-section into the dict  *)
(* it is given and returns that dict.                                      *)

\* context[key] = value, in place
SetItem(h, context, key, value) ==
    [h EXCEPT ![context.a] = DictO((key :> value) @@ h[context.a].ents)]

\* AdjustForAgent with brand_context added whatever the role is
AdjustForAgentAnyRole(h, agent_role, context) ==
    [h |-> SetItem(Append(h, DictO(
                       [brand |-> DictGet(h, context.a, "brand", EmptyStr),
                        voice |-> DictGet(h, context.a, "voice", EmptyStr),
                        benchmarks |-> DictGet(h, context.a, "benchmarks", EmptyStr)])),
                   context, "brand_context", RefV(Len(h) + 1)),
     v |-> context]

\* AdjustForAgent with seo_focus filled from the Pool (the dict at address 1)
\* instead of the view
AdjustForAgentFromPool(h, agent_role, context) ==
    CASE agent_role = "brand_strategist" ->
            LET sub == Alloc(h, DictO(
                    [brand |-> DictGet(h, context.a, "brand", EmptyStr),
                     voice |-> DictGet(h, context.a, "voice", EmptyStr),
                     benchmarks |-> DictGet(h, context.a, "benchmarks", EmptyStr)]))
            IN [h |-> SetItem(sub.h, context, "brand_context", sub.v), v |-> context]
      [] agent_role = "seo_specialist" ->
            LET tk == DictGetFresh(h, 1, "theme_keywords", "list")
                ko == DictGetFresh(tk.h, 1, "keyword_opportunities", "list")
                sub == Alloc(ko.h, DictO(
                    [theme_keywords |-> tk.v, keyword_opportunities |-> ko.v]))
            IN [h |-> SetItem(sub.h, context, "seo_focus", sub.v), v |-> context]
      [] agent_role = "seo_copywriter" ->
            LET sf == DictGetFresh(h, context.a, "semantic_fields", "dict")
                sub == Alloc(sf.h, DictO(
                    [format_recommendations |->
                         DictGet(h, context.a, "format_recommendations", EmptyStr),
                     semantic_fields |-> sf.v]))
            IN [h |-> SetItem(sub.h, context, "content_focus", sub.v), v |-> context]
      [] OTHER -> [h |-> h, v |-> context]

AdjustForAgent(h, agent_role, context) ==
    CASE agent_role = "brand_strategist" ->
            LET sub == Alloc(h, DictO(
                    [brand |-> DictGet(h, context.a, "brand", EmptyStr),
                     voice |-> DictGet(h, context.a, "voice", EmptyStr),
                     benchmarks |-> DictGet(h, context.a, "benchmarks", EmptyStr)]))
            IN [h |-> SetItem(sub.h, context, "brand_context", sub.v), v |-> context]
      [] agent_role = "seo_specialist" ->
            LET tk == DictGetFresh(h, context.a, "theme_keywords", "list")
                ko == DictGetFresh(tk.h, context.a, "keyword_opportunities", "list")
                sub == Alloc(ko.h, DictO(
                    [theme_keywords |-> tk.v, keyword_opportunities |-> ko.v]))
            IN [h |-> SetItem(sub.h, context, "seo_focus", sub.v), v |-> context]
      [] agent_role = "seo_copywriter" ->
            LET sf == DictGetFresh(h, context.a, "semantic_fields", "dict")
                sub == Alloc(sf.h, DictO(
                    [format_recommendations |->
                         DictGet(h, context.a, "format_recommendations", EmptyStr),
                     semantic_fields |-> sf.v]))
            IN [h |-> SetItem(sub.h, context, "content_focus", sub.v), v |-> context]
      [] OTHER -> [h |-> h, v |-> context]

-----------------------------------------------------------------------------
(* View cache and get_minimal_context *)

\* CacheKey with the stage left out of the key
CacheKeyRoleOnly(agent_role, task_stage) == agent_role

\* f"{agent_role}_{task_stage}"
CacheKey(agent_role, task_stage) == agent_role \o "_" \o task_stage

CacheHas(cache, key) == \E i \in 1..Len(cache) : cache[i].key = key

CacheGet(cache, key) == cache[CHOOSE i \in 1..Len(cache) : cache[i].key = key].ctx

\* CachePut keeping the newest entry only
CachePutEvicting(cache, key, ctx) == <<[key |-> key, ctx |-> ctx]>>

\* cache[key] = ctx: a new key goes last, an old key keeps its place
CachePut(cache, key, ctx) ==
    IF CacheHas(cache, key)
    THEN [i \in 1..Len(cache) |->
              IF cache[i].key = key THEN [key |-> key, ctx |-> ctx] ELSE cache[i]]
    ELSE Append(cache, [key |-> key, ctx |-> ctx])

\* the augmenter applied to what the stage rule gave
AdjustResult(ctx, agent_role) == AdjustForAgent(ctx.h, agent_role, ctx.v)

\* the stage rule applied to the base_context just built
StageResult(base, fc, task_stage) == StageContext(base.h, fc, task_stage, base.v)

\* the derivation of a view: base_context, the stage rule, the augmenter
DeriveContext(h, fc, agent_role, task_stage) ==
    AdjustResult(StageResult(Alloc(h, DictO(BaseContext(h, fc))), fc, task_stage),
                 agent_role)

\* the store and return of get_minimal_context
StoreContext(cache, cache_key, context) ==
    [h |-> context.h,
     cache |-> CachePut(cache, cache_key, context.v),
     v |-> context.v,
     hit |-> FALSE]

\* get_minimal_context, run without interruption
GetMinimalContext(h, cache, fc, agent_role, task_stage) ==
    IF CacheHas(cache, CacheKey(agent_role, task_stage))
    THEN [h |-> h, cache |-> cache,
          v |-> CacheGet(cache, CacheKey(agent_role, task_stage)), hit |-> TRUE]
    ELSE StoreContext(cache, CacheKey(agent_role, task_stage),
                      DeriveContext(h, fc, agent_role, task_stage))

\* get_context_summary
ContextSummary(h, cache, fc) ==
    [total_contexts_generated |-> Len(cache),
     cache_keys |-> [i \in 1..Len(cache) |-> cache[i].key],
     full_context_keys |-> DOMAIN h[fc].ents]

RECURSIVE Deep(_, _)
\* the structure a value stands for, with every reference followed
Deep(h, v) ==
    IF v.k # "ref" THEN v
    ELSE IF h[v.a].o = "list"
    THEN [o |-> "list",
          items |-> [i \in 1..Len(h[v.a].items) |-> Deep(h, h[v.a].items[i])]]
    ELSE [o |-> "dict",
          ents |-> [key \in DOMAIN h[v.a].ents |-> Deep(h, h[v.a].ents[key])]]

-----------------------------------------------------------------------------
(* Failure outcomes: the arguments on which a policy raises an exception   *)
(* (AttributeError or TypeError) instead of returning                      *)

\* x.get('Volume', 0) for the record x
VolumeValue(h, x) == DictGet(h, x.a, "Volume", IntV(0))

\* _limit_keywords raises: x.get on an entry that is no dict (an entry of a
\* list, a character of a text, a key of a dict), or Volume values of
\* different types compared by sorted
LimitKeywordsRaises(h, keywords) ==
    /\ Truthy(h, keywords)
    /\ \/ ~IsList(h, keywords)
       \/ \E i \in 1..Len(h[keywords.a].items) : ~IsDict(h, h[keywords.a].items[i])
       \/ \E i, j \in 1..Len(h[keywords.a].items) :
              VolumeValue(h, h[keywords.a].items[i]).k
                  # VolumeValue(h, h[keywords.a].items[j]).k

\* v[:n] raises: only texts and lists can be sliced
SliceValueRaises(h, v) == ~IsStr(v) /\ ~IsList(h, v)

\* data.get(key, [])[:n] raises
SliceOfKeyRaises(h, data, key) ==
    key \in DOMAIN h[data.a].ents /\ SliceValueRaises(h, h[data.a].ents[key])

\* _summarize_semantic_fields raises: .items() on a value that is no dict, or
\* a slice that raises
SummarizeSemanticFieldsRaises(h, semantic_fields) ==
    /\ Truthy(h, semantic_fields)
    /\ \/ ~IsDict(h, semantic_fields)
       \/ \E theme \in DOMAIN h[semantic_fields.a].ents :
              LET data == h[semantic_fields.a].ents[theme]
              IN /\ IsDict(h, data)
                 /\ \/ SliceOfKeyRaises(h, data, "related_google")
                    \/ SliceOfKeyRaises(h, data, "suggested_titles")

\* _summarize_strategy raises: strategy_output[:200] on a number or a dict
SummarizeStrategyRaises(h, strategy_output) ==
    Truthy(h, strategy_output) /\ SliceValueRaises(h, strategy_output)

\* the value the Pool holds under key, the empty text if it has none (on
\* which no policy raises)
FieldOrEmpty(h, fc, key) == DictGet(h, fc, key, EmptyStr)

\* the derivation of a view for task_stage raises
DeriveRaises(h, fc, task_stage) ==
    \/ /\ task_stage = "products"
       /\ SummarizeStrategyRaises(h, FieldOrEmpty(h, fc, "strategy_output"))
    \/ /\ task_stage \in {"seo", "content"}
       /\ \/ LimitKeywordsRaises(h, FieldOrEmpty(h, fc, "theme_keywords"))
          \/ LimitKeywordsRaises(h, FieldOrEmpty(h, fc, "keyword_opportunities"))
          \/ SummarizeSemanticFieldsRaises(h, FieldOrEmpty(h, fc, "semantic_fields"))

-----------------------------------------------------------------------------
(* The Pools the engine is constructed with.  The Pool dict is at address  *)
(* 1 of each initial heap.                                                 *)

\* a keyword record {'kw': name, 'Volume': volume}
Kw(name, volume) == DictO([kw |-> StrV(<<name>>), Volume |-> IntV(volume)])

\* a keyword record without Volume
KwBare(name) == DictO([kw |-> StrV(<<name>>)])

\* the text "A. B. C. D. E."
ProductsAE ==
    <<"A", ".", " ", "B", ".", " ", "C", ".", " ", "D", ".", " ", "E", ".">>

\* a text of n characters: c, with a '.' at every seventh place
TextOf(n, c) == [i \in 1..n |-> IF i % 7 = 0 THEN "." ELSE c]

TextOfLen(n) == TextOf(n, "x")

\* the Pool of the end-to-end scenario: six keywords, five sentences
ScenarioHeap ==
    << DictO([brand |-> StrV(<<"A", "c", "m", "e">>),
              voice |-> StrV(<<"b", "o", "l", "d">>),
              theme |-> StrV(<<"s", "u", "n">>),
              theme_keywords |-> RefV(2),
              products |-> StrV(ProductsAE)]),
       ListO(<<RefV(3), RefV(4), RefV(5), RefV(6), RefV(7), RefV(8)>>),
       Kw("s", 1), Kw("p", 5), Kw("a", 3), Kw("b", 2), Kw("c", 6), Kw("d", 4) >>

\* a Pool with every field, of every shape: text, sequences, mappings,
\* an empty sequence, a theme that is no mapping
ShapesHeap ==
    << DictO([brand |-> StrV(<<"N">>),
              voice |-> StrV(<<"v">>),
              theme |-> StrV(<<"t">>),
              name |-> StrV(<<"n">>),
              preferred_language |-> StrV(<<"e", "n">>),
              benchmarks |-> RefV(2),
              blog |-> StrV(<<"b">>),
              format_recommendations |-> StrV(<<"H">>),
              products |-> RefV(3),
              theme_keywords |-> RefV(4),
              keyword_opportunities |-> RefV(5),
              semantic_fields |-> RefV(6),
              brief_summary |-> StrV(<<"g">>)]),
       ListO(<<StrV(<<"m">>)>>),
       ListO(<<StrV(<<"P">>), StrV(<<"Q">>)>>),
       ListO(<<RefV(10), RefV(11)>>),
       ListO(<<>>),
       DictO([t1 |-> RefV(7), t2 |-> StrV(<<"z">>)]),
       DictO([related_google |-> RefV(8),
              search_intent |-> StrV(<<"i">>),
              suggested_titles |-> RefV(9)]),
       ListO(<<StrV(<<"1">>), StrV(<<"2">>), StrV(<<"3">>), StrV(<<"4">>),
               StrV(<<"5">>), StrV(<<"6">>)>>),
       ListO(<<StrV(<<"a">>), StrV(<<"b">>), StrV(<<"c">>), StrV(<<"d">>)>>),
       KwBare("k"), Kw("l", 2) >>

\* a Pool with one field only
BareHeap == << DictO([brand |-> StrV(<<"B">>)]) >>

PoolHeaps == {ScenarioHeap, ShapesHeap, BareHeap}

\* what the pipeline runner records as the strategy stage's output
StrategyOutputs == {StrV(<<"S", ".">>), StrV(TextOfLen(SummaryLen + 1))}

\* the roles and task names callers use
Roles ==
    {"brand_strategist", "seo_specialist", "content_strategist", "seo_copywriter",
     "narrative_editor", "content_reviewer", "visual_consultant", "brand"}

Tasks ==
    {"define_strategy", "identify_products", "map_opportunities",
     "generate_seo_metafields", "plan_content", "write_content",
     "refine_narrative", "review_everything", "suggest_elements", "other_task"}

-----------------------------------------------------------------------------
(* The engine used through its facade, one call at a time *)

NoSummary ==
    [total_contexts_generated |-> 0, cache_keys |-> <<>>, full_context_keys |-> {}]

NoRet ==
    [op |-> "none", role |-> "", stage |-> "", key |-> "", v |-> RefV(0),
     hit |-> FALSE, sum |-> NoSummary]

NoFn ==
    [op |-> "none", arg |-> EmptyStr, role |-> "", pre |-> EmptyStr,
     out |-> EmptyStr, done |-> FALSE]

Callers == 1..NumCallers

IdleLoc == [role |-> "", stage |-> "", key |-> "", ctx |-> RefV(0)]

\* ContextChunker.__init__: the Pool is kept by reference, the cache is empty
EngineInit(h) ==
    /\ heap = h
    /\ full_context = 1
    /\ context_cache = <<>>
    /\ ret = NoRet
    /\ hist = {}
    /\ calls = 0
    /\ pc = [c \in Callers |-> "idle"]
    /\ loc = [c \in Callers |-> IdleLoc]
    /\ fn = NoFn

Init == \E h \in PoolHeaps : EngineInit(h)

\* one call get_minimal_context(agent_role, task_stage) and what it is seen to do
CallGetMinimalContext(agent_role, task_stage) ==
    /\ calls < MaxCalls
    /\ \E r \in {GetMinimalContext(heap, context_cache, full_context,
                                    agent_role, task_stage)} :
       /\ heap' = r.h
       /\ context_cache' = r.cache
       /\ ret' = [op |-> "get", role |-> agent_role, stage |-> task_stage,
                  key |-> CacheKey(agent_role, task_stage),
                  v |-> r.v, hit |-> r.hit, sum |-> NoSummary]
       /\ hist' = IF r.hit THEN hist
                  ELSE hist \cup {[role |-> agent_role, stage |-> task_stage,
                                   v |-> r.v, deep |-> Deep(r.h, r.v)]}
       /\ calls' = calls + 1
       /\ UNCHANGED <<full_context, pc, loc, fn>>

\* SEOLab_CPG.get_optimized_context on an initialised facade
GetView(agent_role, task_name) ==
    CallGetMinimalContext(agent_role, GetTaskStage(agent_role, task_name))

\* ContextChunker.get_context_summary
GetContextSummary ==
    /\ ret' = [NoRet EXCEPT !.op = "summary",
                            !.sum = ContextSummary(heap, context_cache, full_context)]
    /\ UNCHANGED <<heap, full_context, context_cache, hist, calls, pc, loc, fn>>

\* the pipeline runner records a stage's output in the Pool, under a new name
AppendField(field, value) ==
    /\ field \notin DOMAIN heap[full_context].ents
    /\ heap' = [heap EXCEPT ![full_context] =
                    DictO((field :> value) @@ heap[full_context].ents)]
    /\ ret' = [NoRet EXCEPT !.op = "append"]
    /\ UNCHANGED <<full_context, context_cache, hist, calls, pc, loc, fn>>

Next ==
    \/ \E agent_role \in Roles, task_name \in Tasks : GetView(agent_role, task_name)
    \/ GetContextSummary
    \/ \E value \in StrategyOutputs : AppendField("strategy_output", value)

Spec == Init /\ [][Next]_vars

-----------------------------------------------------------------------------
(* The engine called with a stage name of the caller's choice *)

\* the stage names callers pass: the stages of the rules, the fallback, and
\* names no rule knows
StageNames ==
    {"strategy", "products", "seo", "content", "refinement", "review", "visual",
     "general", "strategist_general", "specialist_seo"}

DirectRoles == Roles \cup {"seo"}

\* get_agent_context(agent_role, task_stage, chunker)
GetAgentContext(agent_role, task_stage) ==
    CallGetMinimalContext(agent_role, task_stage)

NextDirect ==
    \/ \E agent_role \in DirectRoles, task_stage \in StageNames :
           GetAgentContext(agent_role, task_stage)
    \/ GetContextSummary

SpecDirect == Init /\ [][NextDirect]_vars

-----------------------------------------------------------------------------
(* Callers running get_minimal_context at the same time.  The code takes   *)
(* no lock: between the test of the cache and the store another caller may *)
(* run.                                                                    *)

\* lines 41-44: the key, the test of the cache, the return of a stored view
Enter(c, agent_role, task_name) ==
    /\ pc[c] = "idle"
    /\ calls < MaxCalls
    /\ \E task_stage \in {GetTaskStage(agent_role, task_name)} :
       \E cache_key \in {CacheKey(agent_role, task_stage)} :
       /\ calls' = calls + 1
       /\ IF CacheHas(context_cache, cache_key)
          THEN /\ ret' = [op |-> "get", role |-> agent_role, stage |-> task_stage,
                          key |-> cache_key, v |-> CacheGet(context_cache, cache_key),
                          hit |-> TRUE, sum |-> NoSummary]
               /\ hist' = hist \cup
                     {[role |-> agent_role, stage |-> task_stage,
                       v |-> CacheGet(context_cache, cache_key),
                       deep |-> Deep(heap, CacheGet(context_cache, cache_key))]}
               /\ UNCHANGED <<pc, loc>>
          ELSE /\ pc' = [pc EXCEPT ![c] = "derive"]
               /\ loc' = [loc EXCEPT ![c] = [role |-> agent_role, stage |-> task_stage,
                                             key |-> cache_key, ctx |-> RefV(0)]]
               /\ UNCHANGED <<ret, hist>>
       /\ UNCHANGED <<heap, full_context, context_cache, fn>>

\* lines 47-75: base_context, the stage rule, the augmenter
Derive(c) ==
    /\ pc[c] = "derive"
    /\ \E context \in {DeriveContext(heap, full_context, loc[c].role, loc[c].stage)} :
       /\ heap' = context.h
       /\ loc' = [loc EXCEPT ![c].ctx = context.v]
       /\ pc' = [pc EXCEPT ![c] = "store"]
       /\ UNCHANGED <<full_context, context_cache, ret, hist, calls, fn>>

\* lines 78-80: the store and the return
Store(c) ==
    /\ pc[c] = "store"
    /\ context_cache' = CachePut(context_cache, loc[c].key, loc[c].ctx)
    /\ ret' = [op |-> "get", role |-> loc[c].role, stage |-> loc[c].stage,
               key |-> loc[c].key, v |-> loc[c].ctx, hit |-> FALSE, sum |-> NoSummary]
    /\ hist' = hist \cup {[role |-> loc[c].role, stage |-> loc[c].stage,
                           v |-> loc[c].ctx, deep |-> Deep(heap, loc[c].ctx)]}
    /\ pc' = [pc EXCEPT ![c] = "idle"]
    /\ loc' = [loc EXCEPT ![c] = IdleLoc]
    /\ UNCHANGED <<heap, full_context, calls, fn>>

NextConc ==
    \/ \E c \in Callers, agent_role \in Roles, task_name \in Tasks :
           Enter(c, agent_role, task_name)
    \/ \E c \in Callers : Derive(c)
    \/ \E c \in Callers : Store(c)

SpecConc == Init /\ [][NextConc]_vars

-----------------------------------------------------------------------------
(* A holder of a returned view changes, in place, something the view       *)
(* reaches.                                                                *)

RECURSIVE Reach(_, _)
\* the addresses of the objects a value reaches
Reach(h, v) ==
    IF v.k # "ref" THEN {}
    ELSE {v.a} \cup
         (IF h[v.a].o = "list"
          THEN UNION {Reach(h, h[v.a].items[i]) : i \in 1..Len(h[v.a].items)}
          ELSE UNION {Reach(h, h[v.a].ents[key]) : key \in DOMAIN h[v.a].ents})

\* the text a holder writes
Mark == StrV(<<"!">>)

\* obj.append(Mark) on a list, obj['changed'] = Mark on a dict
Mutated(obj) ==
    IF obj.o = "list" THEN ListO(Append(obj.items, Mark))
    ELSE DictO(("changed" :> Mark) @@ obj.ents)

\* one change in place of the object at address a, reached from the view
\* cached at place i; it is the last thing done
MutateView(i, a) ==
    /\ calls <= MaxCalls
    /\ a \in Reach(heap, context_cache[i].ctx)
    /\ heap' = [heap EXCEPT ![a] = Mutated(heap[a])]
    /\ ret' = [NoRet EXCEPT !.op = "mutate", !.key = context_cache[i].key,
                            !.v = RefV(a)]
    /\ calls' = MaxCalls + 1
    /\ UNCHANGED <<full_context, context_cache, hist, pc, loc, fn>>

NextAlias ==
    \/ \E agent_role \in Roles, task_name \in Tasks : GetView(agent_role, task_name)
    \/ \E i \in 1..Len(context_cache), a \in 1..Len(heap) : MutateView(i, a)

SpecAlias == Init /\ [][NextAlias]_vars

-----------------------------------------------------------------------------
(* The limiting policies and the augmenter applied on their own: the       *)
(* initial state holds an argument, the one step applies the function.     *)

\* the state before a function is applied to arg, an argument living in h
FnInit(h, op, arg, role) ==
    /\ heap = h
    /\ full_context = 1
    /\ context_cache = <<>>
    /\ ret = NoRet
    /\ hist = {}
    /\ calls = 0
    /\ pc = [c \in Callers |-> "idle"]
    /\ loc = [c \in Callers |-> IdleLoc]
    /\ fn = [op |-> op, arg |-> arg, role |-> role, pre |-> Deep(h, arg),
             out |-> EmptyStr, done |-> FALSE]

\* the step that applies a function whose result is r = [h, v]
FnApply(op, r) ==
    /\ fn.op = op
    /\ ~fn.done
    /\ heap' = r.h
    /\ fn' = [fn EXCEPT !.out = r.v, !.done = TRUE]
    /\ UNCHANGED <<full_context, context_cache, ret, hist, calls, pc, loc>>

(* _limit_products *)

ProductChars == {"A", ".", " "}

\* every text of at most MaxProdLen characters, and the scenario's text
ProductTexts ==
    UNION {[1..n -> ProductChars] : n \in 0..MaxProdLen} \cup {ProductsAE}

InitProducts ==
    \E t \in ProductTexts : FnInit(<<>>, "limit_products", StrV(t), "")

ApplyLimitProducts ==
    FnApply("limit_products", [h |-> heap, v |-> LimitProducts(heap, fn.arg)])

SpecProducts == InitProducts /\ [][ApplyLimitProducts]_vars

(* _limit_keywords *)

Letters == <<"a", "b", "c", "d", "e", "f", "g", "h", "i", "j">>

\* Volume values of the records of a list; -1 stands for a record without Volume
VolumeLists ==
    UNION {{f \in [1..n -> 1..MaxKw] : \A i, j \in 1..n : i # j => f[i] # f[j]} :
              n \in 0..MaxKw}
    \cup UNION {[1..n -> -1..MaxVol] : n \in 0..MaxTieLen}

\* the heap holding a keyword list (address 1) with one record per volume
KeywordHeap(vols) ==
    <<ListO([i \in 1..Len(vols) |-> RefV(i + 1)])>>
    \o [i \in 1..Len(vols) |->
            IF vols[i] = -1 THEN KwBare(Letters[i]) ELSE Kw(Letters[i], vols[i])]

InitKeywords ==
    \E vols \in VolumeLists : FnInit(KeywordHeap(vols), "limit_keywords", RefV(1), "")

ApplyLimitKeywords ==
    FnApply("limit_keywords", LimitKeywords(heap, fn.arg))

SpecKeywords == InitKeywords /\ [][ApplyLimitKeywords]_vars

(* _summarize_strategy *)

StrategyTexts == {TextOf(n, c) : n \in 0..MaxStrLen, c \in {"x", "y"}}

InitStrategy ==
    \E t \in StrategyTexts : FnInit(<<>>, "summarize_strategy", StrV(t), "")

ApplySummarizeStrategy ==
    FnApply("summarize_strategy", [h |-> heap, v |-> SummarizeStrategy(heap, fn.arg)])

SpecStrategy == InitStrategy /\ [][ApplySummarizeStrategy]_vars

(* _summarize_semantic_fields *)

\* the shapes of a theme's value: none, a text, a list, or a mapping with g
\* related_google entries and t suggested_titles entries (-1: no such key)
ThemeShapes ==
    {[kind |-> k, g |-> 0, t |-> 0] : k \in {"absent", "text", "list"}}
    \cup {[kind |-> "map", g |-> g, t |-> t] : g \in -1..MaxRelated, t \in -1..MaxTitles}

EntriesOf(n, tag) == ListO([i \in 1..n |-> StrV(<<tag, Letters[i]>>)])

\* the mapping of a theme of shape sh whose lists are at addresses a + 1, a + 2
ThemeRecord(sh, a) ==
    DictO((IF sh.g >= 0 THEN [related_google |-> RefV(a + 1)] ELSE <<>>)
          @@ (IF sh.t >= 0 THEN [suggested_titles |-> RefV(a + 2)] ELSE <<>>)
          @@ (IF sh.g # 0 THEN [search_intent |-> StrV(<<"i", "n">>)] ELSE <<>>))

\* the three objects of a theme, at addresses a, a + 1, a + 2
ThemeObjects(sh, a) ==
    IF sh.kind = "map"
    THEN <<ThemeRecord(sh, a),
           EntriesOf(IF sh.g >= 0 THEN sh.g ELSE 0, "g"),
           EntriesOf(IF sh.t >= 0 THEN sh.t ELSE 0, "t")>>
    ELSE <<ListO(<<StrV(<<"q">>)>>), ListO(<<>>), ListO(<<>>)>>

\* what the semantic_fields mapping holds for a theme of shape sh at address a
ThemeValue(sh, a) == IF sh.kind = "text" THEN StrV(<<"z">>) ELSE RefV(a)

\* the heap holding a semantic_fields mapping (address 1) with themes t1, t2
SemanticHeap(s1, s2) ==
    <<DictO((IF s1.kind # "absent" THEN [t1 |-> ThemeValue(s1, 2)] ELSE <<>>)
            @@ (IF s2.kind # "absent" THEN [t2 |-> ThemeValue(s2, 5)] ELSE <<>>))>>
    \o ThemeObjects(s1, 2) \o ThemeObjects(s2, 5)

InitSemantic ==
    \E s1 \in ThemeShapes, s2 \in ThemeShapes :
        FnInit(SemanticHeap(s1, s2), "summarize_semantic_fields", RefV(1), "")

ApplySummarizeSemanticFields ==
    FnApply("summarize_semantic_fields", SummarizeSemanticFields(heap, fn.arg))

SpecSemantic == InitSemantic /\ [][ApplySummarizeSemanticFields]_vars

(* _adjust_for_agent *)

\* the views the augmenter is given: what each stage rule makes of each Pool
StageViews ==
    {StageResult(Alloc(h, DictO(BaseContext(h, 1))), 1, task_stage) :
        h \in PoolHeaps, task_stage \in StageNames}
    \cup {Alloc(<<>>, DictO(<<>>))}

AdjustRoles == DirectRoles \cup {"", "Brand_Strategist", "seo_specialist "}

InitAdjust ==
    \E view \in StageViews, agent_role \in AdjustRoles :
        FnInit(view.h, "adjust_for_agent", view.v, agent_role)

ApplyAdjustForAgent ==
    FnApply("adjust_for_agent", AdjustForAgent(heap, fn.role, fn.arg))

SpecAdjust == InitAdjust /\ [][ApplyAdjustForAgent]_vars

-----------------------------------------------------------------------------
(* The facade SEOLab_CPG from its construction on.  full_context = 0 says  *)
(* that context_chunker is None; the heap holds two inputs dicts, at       *)
(* addresses 1 and 2, that initialize_context_chunker may be given.        *)

\* the inputs dict create_mock_inputs builds: semantic_fields is the list
\* [topic] + keywords
ApiHeap ==
    << DictO([themes |-> RefV(2),
              voice |-> StrV(<<"v">>),
              brand |-> StrV(<<"B">>),
              products |-> StrV(<<"P", ".">>),
              blog |-> StrV(<<"b">>),
              benchmarks |-> StrV(<<"m">>),
              format_recommendations |-> StrV(<<"H">>),
              semantic_fields |-> RefV(3),
              brand_folder |-> StrV(<<"f">>),
              macro_name |-> StrV(<<"0">>),
              preferred_language |-> StrV(PtBR),
              selected_products |-> RefV(4),
              selected_product_names |-> RefV(5),
              context |-> RefV(6)]),
       DictO([T |-> StrV(<<"T">>)]),
       ListO(<<StrV(<<"T">>), StrV(<<"k">>)>>),
       ListO(<<>>),
       ListO(<<>>),
       DictO([brand_id |-> StrV(<<"t">>), brand |-> StrV(<<"B">>)]) >>

\* a value with its reference moved by d addresses
RelocValue(v, d) == IF v.k = "ref" THEN RefV(v.a + d) ELSE v

\* an object with its references moved by d addresses
Reloc(obj, d) ==
    IF obj.o = "list"
    THEN ListO([i \in 1..Len(obj.items) |-> RelocValue(obj.items[i], d)])
    ELSE DictO([key \in DOMAIN obj.ents |-> RelocValue(obj.ents[key], d)])

\* one heap holding the objects of h1 and h2, their Pools at addresses 1, 2
JoinPools(h1, h2) ==
    <<Reloc(h1[1], 1), Reloc(h2[1], Len(h1))>>
    \o [i \in 1..(Len(h1) - 1) |-> Reloc(h1[i + 1], 1)]
    \o [i \in 1..(Len(h2) - 1) |-> Reloc(h2[i + 1], Len(h1))]

FacadeHeaps ==
    {JoinPools(ApiHeap, ShapesHeap), JoinPools(ScenarioHeap, BareHeap),
     JoinPools(ShapesHeap, ApiHeap)}

\* the inputs dicts initialize_context_chunker is called with
Inputs == {1, 2}

\* SEOLab_CPG.__init__: context_chunker = None
FacadeInit(h) ==
    /\ heap = h
    /\ full_context = 0
    /\ context_cache = <<>>
    /\ ret = NoRet
    /\ hist = {}
    /\ calls = 0
    /\ pc = [c \in Callers |-> "idle"]
    /\ loc = [c \in Callers |-> IdleLoc]
    /\ fn = NoFn

InitFacade == \E h \in FacadeHeaps : FacadeInit(h)

\* InitializeContextChunker with the Pool of the engine replaced and its
\* cache kept
InitializeKeepingCache(inputs) ==
    /\ full_context' = inputs
    /\ hist' = {}
    /\ ret' = [NoRet EXCEPT !.op = "init", !.v = RefV(inputs)]
    /\ UNCHANGED <<heap, context_cache, calls, pc, loc, fn>>

\* initialize_context_chunker(inputs): a new ContextChunker, whose cache is
\* empty, takes the place of the old one
InitializeContextChunker(inputs) ==
    /\ full_context' = inputs
    /\ context_cache' = <<>>
    /\ hist' = {}
    /\ ret' = [NoRet EXCEPT !.op = "init", !.v = RefV(inputs)]
    /\ UNCHANGED <<heap, calls, pc, loc, fn>>

\* get_optimized_context with context_chunker None: return {}
ReturnEmpty(agent_role) ==
    /\ calls < MaxCalls
    /\ heap' = Append(heap, DictO(<<>>))
    /\ ret' = [NoRet EXCEPT !.op = "get", !.role = agent_role,
                            !.v = RefV(Len(heap) + 1)]
    /\ calls' = calls + 1
    /\ UNCHANGED <<full_context, context_cache, hist, pc, loc, fn>>

\* get_minimal_context left by an exception: nothing is stored or returned
RaiseFrom(agent_role, task_stage) ==
    /\ calls < MaxCalls
    /\ ret' = [NoRet EXCEPT !.op = "raise", !.role = agent_role,
                            !.stage = task_stage,
                            !.key = CacheKey(agent_role, task_stage)]
    /\ calls' = calls + 1
    /\ UNCHANGED <<heap, full_context, context_cache, hist, pc, loc, fn>>

\* the call get_minimal_context(agent_role, task_stage) finds no cached view
\* and the derivation raises
MissRaises(agent_role, task_stage) ==
    /\ ~CacheHas(context_cache, CacheKey(agent_role, task_stage))
    /\ DeriveRaises(heap, full_context, task_stage)

\* SEOLab_CPG.get_optimized_context(agent_role, task_name)
GetOptimizedContext(agent_role, task_name) ==
    IF full_context = 0
    THEN ReturnEmpty(agent_role)
    ELSE IF MissRaises(agent_role, GetTaskStage(agent_role, task_name))
    THEN RaiseFrom(agent_role, GetTaskStage(agent_role, task_name))
    ELSE GetView(agent_role, task_name)

NextFacade ==
    \/ \E inputs \in Inputs : InitializeContextChunker(inputs)
    \/ \E agent_role \in Roles, task_name \in Tasks :
           GetOptimizedContext(agent_role, task_name)

SpecFacade == InitFacade /\ [][NextFacade]_vars

-----------------------------------------------------------------------------
(* Claims about the cache *)

\* a view was derived and stored for the pair (role, stage)
PairStored(role, stage) == \E e \in hist : e.role = role /\ e.stage = stage

\* cache_summary().count
CountNow ==
    ContextSummary(heap, context_cache, full_context).total_contexts_generated

\* the view an engine with no cache derives now for (role, stage)
FreshView(role, stage) == DeriveContext(heap, full_context, role, stage)

DeepOf(r) == Deep(r.h, r.v)

\* C1: a get_view for a pair (role, stage) the cache holds no entry for raises
\* the count of cached views by exactly 1; a later get_view for the pair
\* raises it by 0 and returns the stored view itself, structurally equal to
\* what the first call returned.
C1_FirstCallAddsOneSecondAddsNone ==
    [][(ret'.op = "get" /\ calls' = calls + 1) =>
          IF ~PairStored(ret'.role, ret'.stage)
          THEN CountNow' = CountNow + 1
          ELSE /\ CountNow' = CountNow
               /\ \E e \in hist :
                     /\ e.role = ret'.role /\ e.stage = ret'.stage
                     /\ ret'.v = e.v
                     /\ Deep(heap', ret'.v) = e.deep]_vars

\* C1 witness: the same pair was asked for twice; the second call found the
\* view stored by the first
C1_Witness ==
    /\ ret.op = "get" /\ ret.hit /\ calls = 2 /\ CountNow = 1
    /\ PairStored(ret.role, ret.stage)

\* C2: whatever get_view calls and appends to the Pool came before, the view
\* a get_view returns is structurally equal to the view an engine with no
\* cache derives from the Pool as it is now.
C2_CacheIsOnlyAnOptimization ==
    ret.op = "get" => Deep(heap, ret.v) = DeepOf(FreshView(ret.role, ret.stage))

\* C3: for one (role, stage) the view is derived at most once, and every
\* caller is given the same stored view.
C3_DerivedOnceSameView ==
    \A e1, e2 \in hist :
        (e1.role = e2.role /\ e1.stage = e2.stage) => e1.v = e2.v

\* C4: a request returns the view derived and augmented for its own role and
\* stage, never the view cached for another (role, stage) pair, whatever the
\* role and stage strings are.
C4_KeysNeverCollide ==
    ret.op = "get" =>
        /\ Deep(heap, ret.v) = DeepOf(FreshView(ret.role, ret.stage))
        /\ ret.hit => PairStored(ret.role, ret.stage)

\* C5: a change in place of anything a returned view reaches leaves the Pool
\* and every view cached under another key as they were.
C5_ViewsShareNothing ==
    [][(ret'.op = "mutate" /\ calls <= MaxCalls /\ calls' = MaxCalls + 1) =>
          /\ Deep(heap', RefV(full_context)) = Deep(heap, RefV(full_context))
          /\ \A i \in 1..Len(context_cache) :
                context_cache[i].key # ret'.key =>
                    Deep(heap', context_cache[i].ctx) = Deep(heap, context_cache[i].ctx)]_vars

-----------------------------------------------------------------------------
(* Claims about the limiting policies and the augmenter *)

\* the text "A. B. C."
ProductsABC == <<"A", ".", " ", "B", ".", " ", "C", ".">>

\* C6: text truncation of a non-empty products text gives its first at most
\* 3 '.'-delimited sentences joined with ". " and a trailing period, so that
\* "A. B. C. D. E." becomes exactly "A. B. C."; an empty text is returned
\* unchanged.
C6_FirstThreeSentences ==
    fn.done =>
        /\ fn.arg.s = <<>> => fn.out = fn.arg
        /\ fn.arg.s # <<>> =>
               fn.out.s = JoinWith(Slice(SplitOn(fn.arg.s, "."), 3), <<".", " ">>)
                          \o <<".">>
        /\ fn.arg.s = ProductsAE => fn.out.s = ProductsABC

\* the list given to _limit_keywords and the list it returned
KwIn == heap[fn.arg.a].items
KwOut == heap[fn.out.a].items

DistinctVolumes(items) ==
    \A i, j \in 1..Len(items) :
        i # j => VolumeKey(heap, items[i]) # VolumeKey(heap, items[j])

\* C7: of a keyword list of length at least 5 with distinct Volume values the
\* result has exactly 5 entries, the 5 records of highest Volume, in strictly
\* descending order of Volume; of a list of length less than 5 the result has
\* every input record and the same length.
C7_TopFiveByVolume ==
    fn.done =>
        /\ (Len(KwIn) >= 5 /\ DistinctVolumes(KwIn)) =>
              /\ Len(KwOut) = 5
              /\ \A j \in 1..Len(KwOut) : \E i \in 1..Len(KwIn) : KwOut[j] = KwIn[i]
              /\ \A i \in 1..Len(KwIn) :
                    \/ \E j \in 1..Len(KwOut) : KwOut[j] = KwIn[i]
                    \/ \A j \in 1..Len(KwOut) :
                          VolumeKey(heap, KwOut[j]) > VolumeKey(heap, KwIn[i])
              /\ \A j \in 1..(Len(KwOut) - 1) :
                    VolumeKey(heap, KwOut[j]) > VolumeKey(heap, KwOut[j + 1])
        /\ Len(KwIn) < 5 =>
              /\ Len(KwOut) = Len(KwIn)
              /\ \A i \in 1..Len(KwIn) : \E j \in 1..Len(KwOut) : KwOut[j] = KwIn[i]

\* C7 witness: six records with distinct volumes, not in descending order,
\* were limited
C7_Witness ==
    /\ fn.done /\ Len(KwIn) = 6 /\ DistinctVolumes(KwIn)
    /\ VolumeKey(heap, KwIn[1]) < VolumeKey(heap, KwIn[6])
    /\ Len(KwOut) = 5

\* C8: of a text longer than 200 characters the summary is its first 200
\* characters followed by "..."; a text of at most 200 characters, the empty
\* text included, is returned unchanged.
C8_PrefixSummary ==
    fn.done =>
        IF Len(fn.arg.s) > 200
        THEN fn.out.s = [i \in 1..203 |-> IF i <= 200 THEN fn.arg.s[i] ELSE "."]
        ELSE fn.out = fn.arg

\* C8 witness: a text of 201 characters was summarized
C8_Witness == fn.done /\ Len(fn.arg.s) = 201 /\ Len(fn.out.s) = 203

\* the mapping given to _summarize_semantic_fields and the one it returned
SemIn == heap[fn.arg.a].ents
SemOut == heap[fn.out.a].ents

\* the items of entry key of the theme record d, none when there is no entry
ItemsAt(d, key) ==
    IF key \in DOMAIN heap[d.a].ents THEN heap[heap[d.a].ents[key].a].items ELSE <<>>

IsPrefix(p, q) == Len(p) <= Len(q) /\ \A i \in 1..Len(p) : p[i] = q[i]

\* C9: every theme of the result has at most 5 related_google and at most 3
\* suggested_titles entries, the leading entries of the input in their
\* order; search_intent is kept in full; a theme whose value is no mapping is
\* not in the result and every theme whose value is a mapping is.
C9_SemanticSummary ==
    fn.done =>
        \A theme \in DOMAIN SemIn \cup DOMAIN SemOut :
            IF theme \in DOMAIN SemIn /\ IsDict(heap, SemIn[theme])
            THEN /\ theme \in DOMAIN SemOut
                 /\ DOMAIN heap[SemOut[theme].a].ents =
                        {"related_google", "search_intent", "suggested_titles"}
                 /\ \E rg \in {ItemsAt(SemOut[theme], "related_google")} :
                        /\ Len(rg) = Min(5, Len(ItemsAt(SemIn[theme], "related_google")))
                        /\ IsPrefix(rg, ItemsAt(SemIn[theme], "related_google"))
                 /\ \E st \in {ItemsAt(SemOut[theme], "suggested_titles")} :
                        /\ Len(st) = Min(3, Len(ItemsAt(SemIn[theme], "suggested_titles")))
                        /\ IsPrefix(st, ItemsAt(SemIn[theme], "suggested_titles"))
                 /\ heap[SemOut[theme].a].ents["search_intent"] =
                        DictGet(heap, SemIn[theme].a, "search_intent", EmptyStr)
            ELSE theme \notin DOMAIN SemOut

\* C9 witness: a theme with 6 related_google and 4 suggested_titles entries
\* was cut to 5 and 3 while the other theme, no mapping, was dropped
C9_Witness ==
    /\ fn.done
    /\ "t1" \in DOMAIN SemIn /\ IsDict(heap, SemIn["t1"])
    /\ Len(ItemsAt(SemIn["t1"], "related_google")) = 6
    /\ Len(ItemsAt(SemIn["t1"], "suggested_titles")) = 4
    /\ Len(ItemsAt(SemOut["t1"], "related_google")) = 5
    /\ Len(ItemsAt(SemOut["t1"], "suggested_titles")) = 3
    /\ "t2" \in DOMAIN SemIn /\ ~IsDict(heap, SemIn["t2"])
    /\ DOMAIN SemOut = {"t1"}

AugmentedRoles == {"brand_strategist", "seo_specialist", "seo_copywriter"}

\* C10: for a role other than brand_strategist, seo_specialist and
\* seo_copywriter the augmenter returns the view it was given with no key
\* added, removed or changed.
C10_OtherRolesUnchanged ==
    (fn.done /\ fn.role \notin AugmentedRoles) =>
        /\ fn.out = fn.arg
        /\ Deep(heap, fn.out) = fn.pre

\* C10 witness: the augmenter was applied for content_strategist to a view
\* of the content stage
C10_Witness ==
    /\ fn.done /\ fn.role = "content_strategist"
    /\ "brief_summary" \in DOMAIN heap[fn.out.a].ents

-----------------------------------------------------------------------------
(* Claims about the resolver's fallback and the derivation rules *)

\* the keys of base_context
BaseKeys == {"brand", "voice", "theme", "name", "preferred_language"}

\* the key of the sub-section the augmenter adds for a role
SubSectionKeys(agent_role) ==
    CASE agent_role = "brand_strategist" -> {"brand_context"}
      [] agent_role = "seo_specialist" -> {"seo_focus"}
      [] agent_role = "seo_copywriter" -> {"content_focus"}
      [] OTHER -> {}

\* the keys of the view the last call returned
RetKeys == DOMAIN heap[ret.v.a].ents

\* the last call was get_view(role, task) for a role of the resolver table
\* and a task the table does not list for it
UnlistedTaskCall(role, task) ==
    /\ ret.op = "get"
    /\ ret.role = role
    /\ role \in DOMAIN TASK_STAGE_MAPPING
    /\ task \notin DOMAIN TASK_STAGE_MAPPING[role]
    /\ ret.stage = GetTaskStage(role, task)

\* C11 as stated: for a role of the resolver table and a task identifier not
\* listed for it, the resolver gives stage general and get_view returns a
\* view whose keys are exactly brand, voice, theme, name, preferred_language.
C11_GeneralViewHasBaseKeysOnly ==
    \A role \in Roles, task \in Tasks :
        UnlistedTaskCall(role, task) =>
            /\ GetTaskStage(role, task) = "general"
            /\ RetKeys = BaseKeys

\* C11 amended: for a role of the resolver table and a task identifier not
\* listed for it, the resolver gives stage general and get_view returns a
\* view whose keys are the five base keys and, for brand_strategist,
\* seo_specialist and seo_copywriter, the key of the role's sub-section;
\* no key of a stage rule is present.
C11_GeneralViewHasBaseAndRoleKeys ==
    \A role \in Roles, task \in Tasks :
        UnlistedTaskCall(role, task) =>
            /\ GetTaskStage(role, task) = "general"
            /\ RetKeys = BaseKeys \cup SubSectionKeys(role)

\* C11 witness: get_view for seo_specialist with an unlisted task returned a
\* general view holding seo_focus
C11_Witness ==
    /\ UnlistedTaskCall("seo_specialist", "other_task")
    /\ ret.stage = "general"
    /\ "seo_focus" \in RetKeys

\* the Pool as it is now
PoolNow == heap[full_context].ents

\* the last call derived a view for the given stage (no cached view was used)
DerivedFor(stage) == ret.op = "get" /\ ret.stage = stage /\ ~ret.hit

\* the first 200 characters of a text, and the marker when it is longer
PrefixSummaryOf(text) ==
    IF Len(text) > 200
    THEN [i \in 1..203 |-> IF i <= 200 THEN text[i] ELSE "."]
    ELSE text

\* the text the Pool records as the strategy stage's output, empty if none
RecordedStrategy ==
    IF "strategy_output" \in DOMAIN PoolNow THEN PoolNow["strategy_output"].s ELSE <<>>

\* C12 as stated: the view derived for stage products has a field named
\* strategy_output holding the prefix summary of the Pool's recorded
\* strategy output, the empty string when the Pool records none.
C12_ProductsViewHasStrategyOutput ==
    DerivedFor("products") =>
        /\ "strategy_output" \in RetKeys
        /\ heap[ret.v.a].ents["strategy_output"] = StrV(PrefixSummaryOf(RecordedStrategy))

\* C12 amended: the view derived for stage products has a field named
\* strategy_summary (and none named strategy_output) holding the prefix
\* summary of the Pool's recorded strategy output, the empty string when the
\* Pool records none.
C12_ProductsViewHasStrategySummary ==
    DerivedFor("products") =>
        /\ "strategy_summary" \in RetKeys
        /\ "strategy_output" \notin RetKeys
        /\ heap[ret.v.a].ents["strategy_summary"] = StrV(PrefixSummaryOf(RecordedStrategy))

\* C12 witness: a products view was derived from a Pool whose recorded
\* strategy output is longer than 200 characters
C12_Witness ==
    /\ DerivedFor("products")
    /\ Len(RecordedStrategy) > 200
    /\ Len(heap[ret.v.a].ents["strategy_summary"].s) = 203

\* the keys a stage's rule fills from the Pool
StageReads(stage) ==
    CASE stage = "strategy" -> {"benchmarks", "blog", "format_recommendations"}
      [] stage = "products" -> {"products", "strategy_summary"}
      [] stage = "seo" -> {"products", "theme_keywords", "keyword_opportunities",
                           "semantic_fields"}
      [] stage = "content" -> {"products", "theme_keywords", "keyword_opportunities",
                               "semantic_fields", "format_recommendations", "blog",
                               "brief_summary"}
      [] stage = "refinement" -> {"voice", "benchmarks", "format_recommendations"}
      [] stage = "review" -> {"products", "voice"}
      [] stage = "visual" -> {"brand", "voice"}
      [] OTHER -> {}

\* the Pool field a key of the view is filled from
PoolFieldOf(key) == IF key = "strategy_summary" THEN "strategy_output" ELSE key

EmptySequence == [o |-> "list", items |-> <<>>]

EmptyMapping == [o |-> "dict", ents |-> <<>>]

\* the empty value of the type of a field
EmptyValueOf(key) ==
    CASE key \in {"theme_keywords", "keyword_opportunities"} -> EmptySequence
      [] key = "semantic_fields" -> EmptyMapping
      [] OTHER -> EmptyStr

\* the structure the returned view holds under a key
RetField(key) == Deep(heap, heap[ret.v.a].ents[key])

\* C13 as stated: for every stage and every Pool field the stage's rule or
\* the base view reads, preferred_language included, a field absent from the
\* Pool appears in the derived view as the empty value of its type.
C13_AbsentFieldsAreEmpty ==
    \A stage \in StageNames :
        DerivedFor(stage) =>
            \A key \in BaseKeys \cup StageReads(stage) :
                PoolFieldOf(key) \notin DOMAIN PoolNow =>
                    /\ key \in RetKeys
                    /\ RetField(key) = EmptyValueOf(key)

\* C13 amended: for every stage and every Pool field the stage's rule or the
\* base view reads, a field absent from the Pool appears in the derived view
\* as the empty value of its type, except preferred_language, which appears
\* as the text 'pt_BR'.
C13_AbsentFieldsAreEmptyOrPtBR ==
    \A stage \in StageNames :
        DerivedFor(stage) =>
            \A key \in BaseKeys \cup StageReads(stage) :
                PoolFieldOf(key) \notin DOMAIN PoolNow =>
                    /\ key \in RetKeys
                    /\ RetField(key) = IF key = "preferred_language"
                                        THEN StrV(PtBR) ELSE EmptyValueOf(key)

\* C13 witness: a content view was derived from a Pool that has neither
\* semantic_fields nor theme_keywords nor preferred_language
C13_Witness ==
    /\ DerivedFor("content")
    /\ DOMAIN PoolNow \cap {"semantic_fields", "theme_keywords", "name",
                             "preferred_language"} = {}
    /\ RetField("semantic_fields") = EmptyMapping
    /\ RetField("theme_keywords") = EmptySequence
    /\ RetField("preferred_language") = StrV(PtBR)

\* C14: get_view has no failure outcome: whatever the role, the task and the
\* Pool (keyword records without Volume, a semantic_fields that is a
\* sequence as the API bootstrap builds it, products that is no text), the
\* call returns a view and never raises.
C14_GetViewNeverRaises == ret.op # "raise"

-----------------------------------------------------------------------------
(* Claims about the augmenter *)

\* the keys of the sub-section the augmenter adds for a role
SubSectionEntries(agent_role) ==
    CASE agent_role = "brand_strategist" -> {"brand", "voice", "benchmarks"}
      [] agent_role = "seo_specialist" -> {"theme_keywords", "keyword_opportunities"}
      [] agent_role = "seo_copywriter" -> {"format_recommendations", "semantic_fields"}
      [] OTHER -> {}

\* the view the augmenter returned
AdjustedView == heap[fn.out.a].ents

\* the sub-section the augmenter added to it
AddedSubSection ==
    heap[AdjustedView[CHOOSE key \in SubSectionKeys(fn.role) : TRUE].a].ents

\* the augmenter has been applied for one of the roles it knows
AdjustedForKnownRole ==
    fn.op = "adjust_for_agent" /\ fn.done /\ fn.role \in AugmentedRoles

\* C15: for brand_strategist, seo_specialist and seo_copywriter and every
\* stage, each entry of the added sub-section is the value the stage view
\* holds under the same key (for seo_specialist the very list the view holds
\* as theme_keywords), or the empty default when the view has no such key,
\* whatever the Pool holds under that key.
C15_SubSectionReadsTheViewOnly ==
    AdjustedForKnownRole =>
        /\ SubSectionKeys(fn.role) \subseteq DOMAIN AdjustedView
        /\ DOMAIN AddedSubSection = SubSectionEntries(fn.role)
        /\ \A key \in SubSectionEntries(fn.role) :
              IF key \in DOMAIN fn.pre.ents
              THEN AddedSubSection[key] = AdjustedView[key]
              ELSE Deep(heap, AddedSubSection[key]) = EmptyValueOf(key)

\* C15 witness: seo_specialist on the seo view of the scenario's Pool, whose
\* six theme_keywords the view holds limited to five
C15_Witness ==
    /\ AdjustedForKnownRole
    /\ fn.role = "seo_specialist"
    /\ "theme_keywords" \in DOMAIN fn.pre.ents
    /\ "theme_keywords" \in DOMAIN heap[1].ents
    /\ Len(heap[heap[1].ents["theme_keywords"].a].items) = 6
    /\ Len(heap[AddedSubSection["theme_keywords"].a].items) = 5
    /\ AddedSubSection["theme_keywords"] = AdjustedView["theme_keywords"]

\* C16: the augmenter works on a copy: the view it was given (the base view
\* itself on the general fallback) has the same keys and values after the
\* call as before.
C16_AugmenterLeavesItsArgument ==
    (fn.op = "adjust_for_agent" /\ fn.done) => Deep(heap, fn.arg) = fn.pre

-----------------------------------------------------------------------------
(* Claims about the life of the cache and of the Pool *)

\* C17: the cache is empty when the engine is constructed and only grows:
\* over get_view and cache_summary calls a key once present stays present
\* and the view stored under it is never replaced.
C17_CacheOnlyGrows ==
    /\ context_cache = <<>>
    /\ [][/\ Len(context_cache') >= Len(context_cache)
           /\ \A i \in 1..Len(context_cache) :
                  context_cache'[i] = context_cache[i]]_vars

\* C17 witness: a second key was stored beside the first
C17_Witness ==
    /\ Len(context_cache) = 2
    /\ context_cache[1].key # context_cache[2].key
    /\ ret.op = "get" /\ ~ret.hit

\* the field names and field values of the Pool in a heap
PoolValue(h) == Deep(h, RefV(full_context))

\* C18: get_view and cache_summary never modify the Pool: a call of either
\* leaves the Pool with the field names and field values it had, the
\* sequences and mappings the limiting policies were given included.
C18_CallsLeaveThePool ==
    [][ret'.op \in {"get", "summary"} => PoolValue(heap') = PoolValue(heap)]_vars

\* C18 witness: a seo view was derived from the Pool with six theme_keywords
\* and holds five of them
C18_Witness ==
    /\ DerivedFor("seo")
    /\ "theme_keywords" \in DOMAIN PoolNow
    /\ Len(heap[PoolNow["theme_keywords"].a].items) = 6
    /\ Len(heap[heap[ret.v.a].ents["theme_keywords"].a].items) = 5

-----------------------------------------------------------------------------
(* Claims about ties in the ranked selection *)

\* the Volume a record is ranked by: 0 when it has none
RankOf(x) ==
    IF "Volume" \in DOMAIN heap[x.a].ents THEN heap[x.a].ents["Volume"].n ELSE 0

\* the place of a record in the input sequence
PlaceOf(x) == CHOOSE i \in 1..Len(KwIn) : KwIn[i] = x

\* record x comes before record y in the ranking: higher Volume first, and
\* among equal Volumes the one earlier in the input
RanksBefore(x, y) ==
    \/ RankOf(x) > RankOf(y)
    \/ RankOf(x) = RankOf(y) /\ PlaceOf(x) < PlaceOf(y)

\* the selection has been applied to a non-empty sequence
RankedSelectionDone ==
    fn.op = "limit_keywords" /\ fn.done /\ Len(heap[fn.arg.a].items) > 0

\* C19: the selection orders records by Volume descending, a record without
\* Volume ranked as 0; records of equal Volume keep their order of the
\* input; the records kept are the first N of that ranking, so among tied
\* records the earliest of the input.
C19_TiesKeepInputOrder ==
    RankedSelectionDone =>
        /\ Len(KwOut) = Min(Len(KwIn), 5)
        /\ \A i \in 1..Len(KwOut) : \E j \in 1..Len(KwIn) : KwOut[i] = KwIn[j]
        /\ \A i, j \in 1..Len(KwOut) : i < j => RanksBefore(KwOut[i], KwOut[j])
        /\ \A j \in 1..Len(KwIn) :
              (\A i \in 1..Len(KwOut) : KwOut[i] # KwIn[j]) =>
                  \A i \in 1..Len(KwOut) : RanksBefore(KwOut[i], KwIn[j])

\* C19 witness: six records, one of them without Volume; the last record
\* kept and the record dropped have the same Volume
C19_Witness ==
    /\ RankedSelectionDone
    /\ Len(KwIn) = 6 /\ Len(KwOut) = 5
    /\ \E i \in 1..6 : "Volume" \notin DOMAIN heap[KwIn[i].a].ents
    /\ \E j \in 1..6 :
          /\ \A i \in 1..5 : KwOut[i] # KwIn[j]
          /\ RankOf(KwIn[j]) = RankOf(KwOut[5])
          /\ PlaceOf(KwOut[5]) < j

-----------------------------------------------------------------------------
(* Claims about the facade *)

\* context_chunker is None
NoChunker == full_context = 0

\* the last call was get_optimized_context and it returned
Returned == ret.op = "get"

\* the resolver gives the stage of the last call for some task
StageResolved == \E task \in Tasks : ret.stage = GetTaskStage(ret.role, task)

\* C20: before initialize_context_chunker, get_optimized_context returns the
\* empty mapping and creates no cache entry; after it, the call returns what
\* get_minimal_context gives for the role and the resolved stage on the
\* engine built from the inputs given last; initialize_context_chunker
\* leaves an engine over the given inputs whose cache is empty.
C20_FacadeLifecycle ==
    /\ (Returned /\ NoChunker) =>
           /\ Deep(heap, ret.v) = EmptyMapping
           /\ context_cache = <<>>
    /\ (Returned /\ ~NoChunker) =>
           /\ StageResolved
           /\ CacheHas(context_cache, CacheKey(ret.role, ret.stage))
           /\ CacheGet(context_cache, CacheKey(ret.role, ret.stage)) = ret.v
           /\ Deep(heap, ret.v) = DeepOf(FreshView(ret.role, ret.stage))
    /\ ret.op = "init" =>
           /\ full_context = ret.v.a
           /\ context_cache = <<>>

\* C20 witness: a view was derived for brand_strategist, the facade was
\* initialised again with the other inputs, and the view derived next for
\* brand_strategist is the only cached one and has the brand of the new inputs
C20_Witness ==
    /\ Returned /\ ~NoChunker /\ ~ret.hit
    /\ ret.role = "brand_strategist"
    /\ Len(context_cache) = 1
    /\ heap[ret.v.a].ents["brand"] = heap[full_context].ents["brand"]
    /\ \E a \in 1..Len(heap) :
          /\ a # ret.v.a
          /\ heap[a].o = "dict"
          /\ "brand_context" \in DOMAIN heap[a].ents
          /\ heap[a].ents["brand"] # heap[ret.v.a].ents["brand"]

=============================================================================
